---- MODULE Spec2Model ----
(***************************************************************************)
(* Model of Server-check.py: the sequential health-check pipeline run by   *)
(* main() and the top-level exception handler.  The machine's answers to    *)
(* the program's system calls are held in env; the program's own state is   *)
(* its control point, its locals and the append-only alert sink.            *)
(***************************************************************************)
EXTENDS Integers, Sequences, FiniteSets, TLC

VARIABLES pc, env, out, calls, stages, exc, exitCode, services, lines, i, target

vars == <<pc, env, out, calls, stages, exc, exitCode, services, lines, i, target>>

(* ---------------------------------------------------------------- text *)

NL == "\n"

Whitespace == {" ", NL, "\t", "\r"}

UpperChars == <<"A","B","C","D","E","F","G","H","I","J","K","L","M",
                "N","O","P","Q","R","S","T","U","V","W","X","Y","Z">>

LowerChars == <<"a","b","c","d","e","f","g","h","i","j","k","l","m",
                "n","o","p","q","r","s","t","u","v","w","x","y","z">>

LowerChar(c) ==
  IF \E k \in 1..26 : UpperChars[k] = c
    THEN LowerChars[CHOOSE k \in 1..26 : UpperChars[k] = c]
    ELSE c

\* str.lower()
Lower(s) == [k \in 1..Len(s) |-> LowerChar(s[k])]

\* term in s
Contains(s, sub) ==
  \E k \in 1..(Len(s) - Len(sub) + 1) : SubSeq(s, k, k + Len(sub) - 1) = sub

RECURSIVE LStrip(_)
LStrip(s) ==
  IF s # <<>> /\ Head(s) \in Whitespace THEN LStrip(Tail(s)) ELSE s

RECURSIVE RStrip(_)
RStrip(s) ==
  IF s # <<>> /\ s[Len(s)] \in Whitespace
    THEN RStrip(SubSeq(s, 1, Len(s) - 1))
    ELSE s

\* str.strip() / bytes.strip()
Strip(s) == RStrip(LStrip(s))

\* s[-n:]
LastN(s, n) == IF Len(s) <= n THEN s ELSE SubSeq(s, Len(s) - n + 1, Len(s))

ACTIVE == <<"a","c","t","i","v","e">>

KW_ERROR == <<"e","r","r","o","r">>

KW_FAIL == <<"f","a","i","l">>

KW_CRITICAL == <<"c","r","i","t","i","c","a","l">>

Keywords == {KW_ERROR, KW_FAIL, KW_CRITICAL}

(* ------------------------------------------------------- configuration *)

DISK_WARNING_THRESHOLD == 90

MEMORY_WARNING_THRESHOLD_MB == 100

LOG_SIZE_THRESHOLD_MB == 10

TAIL_LINES == 50

MiB == 1048576

SizeCap == LOG_SIZE_THRESHOLD_MB * 1024 * 1024

APACHE_LOG == "/var/log/apache2/error.log"

NGINX_LOG == "/var/log/nginx/error.log"

MYSQL_LOG == "/var/log/mysql/error.log"

\* the three check_logs calls of main(), in order
LogTargets == <<APACHE_LOG, NGINX_LOG, MYSQL_LOG>>

LogStages == <<"LogScan(Apache)", "LogScan(Nginx)", "LogScan(MySQL)">>

\* Path(log_path).name
PathName(p) == "error.log"

OnlyIfActive == <<"apache2", "nginx">>

Always == "mysql"

\* names bound in the module namespace by the import statements
ModuleGlobals == {"os", "sys", "time", "logging", "subprocess", "Path",
                  "datetime", "colorama_init", "Fore", "Style", "psutil",
                  "load_dotenv"}

AllStages == <<"Load", "CPU", "Disk", "Memory", "ServiceRestart">>
             \o LogStages \o <<"WebsiteProbe">>

(* ---------------------------------------------------------- alert sink *)

Result(level, kind, subj, val, text) ==
  [level |-> level, kind |-> kind, subj |-> subj, val |-> val, text |-> text]

info(kind, subj, val, text) == Result("info", kind, subj, val, text)

warn(kind, subj, val, text) == Result("warning", kind, subj, val, text)

error(kind, subj, val, text) == Result("error", kind, subj, val, text)

Call(fn, arg) == [fn |-> fn, arg |-> arg]

(* --------------------------------------------------------------- main *)

\* an exception leaves the running stage and unwinds main()
Raise(e) ==
  /\ exc' = e
  /\ pc' = "Raised"
  /\ services' = <<>>
  /\ lines' = <<>>
  /\ i' = 0
  /\ target' = 0

MainStart ==
  /\ pc = "Start"
  /\ out' = Append(out, info("started", "", 0, <<>>))
  /\ pc' = "Load"
  /\ UNCHANGED <<env, calls, stages, exc, exitCode, services, lines, i, target>>

CheckSystemLoad ==
  /\ pc = "Load"
  /\ stages' = Append(stages, "Load")
  /\ LET e == env.load
         fallback == e.os \in {"AttributeError", "OSError"}
         raised == IF e.os = "ok" THEN "none"
                   ELSE IF fallback
                     THEN (IF e.psutil = "ok" THEN "none" ELSE e.psutil)
                     ELSE e.os
     IN /\ calls' = calls \o <<Call("os.getloadavg", "")>>
                      \o (IF fallback THEN <<Call("psutil.getloadavg", "")>>
                                      ELSE <<>>)
        /\ out' = out \o <<info("checking-load", "", 0, <<>>)>>
                      \o (IF raised = "none"
                            THEN <<info("load-average", "", 0, <<>>)>>
                            ELSE <<>>)
        /\ IF raised = "none"
             THEN /\ pc' = "CPU"
                  /\ UNCHANGED <<exc, services, lines, i, target>>
             ELSE Raise(raised)
  /\ UNCHANGED <<env, exitCode>>

RECURSIVE TempInfos(_)
TempInfos(sensors) ==
  IF sensors = <<>> THEN <<>>
  ELSE [k \in 1..Head(sensors).n |->
          info("temp-sensor", Head(sensors).name, k, <<>>)]
       \o TempInfos(Tail(sensors))

CheckCpu ==
  /\ pc = "CPU"
  /\ stages' = Append(stages, "CPU")
  /\ LET t == env.temps
         caught == t.raise \in {"AttributeError", "KeyError"}
     IN /\ calls' = calls \o <<Call("psutil.cpu_percent", ""),
                               Call("psutil.sensors_temperatures", "")>>
        /\ out' = out \o <<info("checking-cpu", "", 0, <<>>),
                           info("cpu-usage", "", 0, <<>>)>>
                      \o (IF t.raise = "none" THEN TempInfos(t.sensors)
                          ELSE IF caught
                            THEN <<warn("temp-unavailable", "", 0, <<>>)>>
                            ELSE <<>>)
        /\ IF t.raise = "none" \/ caught
             THEN /\ pc' = "Disk"
                  /\ UNCHANGED <<exc, services, lines, i, target>>
             ELSE Raise(t.raise)
  /\ UNCHANGED <<env, exitCode>>

CheckDiskSpace ==
  /\ pc = "Disk"
  /\ stages' = Append(stages, "Disk")
  /\ out' = Append(out, info("checking-disk", "", 0, <<>>))
  /\ calls' = Append(calls, Call("psutil.disk_partitions", ""))
  /\ i' = 1
  /\ pc' = "DiskLoop"
  /\ UNCHANGED <<env, exc, exitCode, services, lines, target>>

\* one iteration of the loop over the partitions, or its end
DiskPartition ==
  /\ pc = "DiskLoop"
  /\ IF i > Len(env.parts)
       THEN /\ pc' = "Memory"
            /\ i' = 0
            /\ UNCHANGED <<out, calls, exc, services, lines, target>>
       ELSE LET part == env.parts[i]
            IN /\ calls' = Append(calls, Call("psutil.disk_usage", part.mountpoint))
               /\ IF part.raise # "none"
                    THEN /\ Raise(part.raise)
                         /\ UNCHANGED out
                    ELSE /\ out' = out
                              \o <<info("disk-usage", part.mountpoint, part.pct, <<>>)>>
                              \o (IF part.pct > DISK_WARNING_THRESHOLD * 10
                                    THEN <<warn("high-disk", part.mountpoint,
                                                part.pct, <<>>)>>
                                    ELSE <<>>)
                         /\ i' = i + 1
                         /\ UNCHANGED <<pc, exc, services, lines, target>>
  /\ UNCHANGED <<env, stages, exitCode>>

CheckMemory ==
  /\ pc = "Memory"
  /\ stages' = Append(stages, "Memory")
  /\ calls' = Append(calls, Call("psutil.virtual_memory", ""))
  /\ LET free_mb == env.mem \div MiB
     IN out' = out \o <<info("checking-memory", "", 0, <<>>),
                        info("available-memory", "", free_mb, <<>>)>>
                   \o (IF free_mb < MEMORY_WARNING_THRESHOLD_MB
                         THEN <<warn("low-memory", "", free_mb, <<>>)>>
                         ELSE <<>>)
  /\ pc' = "Restart"
  /\ UNCHANGED <<env, exc, exitCode, services, lines, i, target>>

(* --------------------------------------------------- restart_services *)

RestartEnter ==
  /\ pc = "Restart"
  /\ stages' = Append(stages, "ServiceRestart")
  /\ out' = Append(out, info("restarting-services", "", 0, <<>>))
  /\ services' = <<>>
  /\ i' = 1
  /\ pc' = "RestartQuery"
  /\ UNCHANGED <<env, calls, exc, exitCode, lines, target>>

\* variant: a substring test instead of equality with b"active"
IsActive_Substring(stdout) == Contains(Strip(stdout), ACTIVE)

\* the is-active query that decides whether svc joins the restart list
IsActive(stdout) == Strip(stdout) = ACTIVE

\* one iteration of the loop over ("apache2", "nginx"), then
\* services.append("mysql")
RestartQuery ==
  /\ pc = "RestartQuery"
  /\ IF i > Len(OnlyIfActive)
       THEN /\ services' = Append(services, Always)
            /\ i' = 1
            /\ pc' = "RestartLoop"
            /\ UNCHANGED <<calls, exc, lines, target>>
       ELSE LET svc == OnlyIfActive[i]
                r == env.svc.pre[svc]
            IN /\ calls' = Append(calls, Call("is-active", svc))
               /\ IF r.raise # "none"
                    THEN Raise(r.raise)
                    ELSE /\ services' = IF IsActive(r.stdout)
                                          THEN Append(services, svc)
                                          ELSE services
                         /\ i' = i + 1
                         /\ UNCHANGED <<pc, exc, lines, target>>
  /\ UNCHANGED <<env, out, stages, exitCode>>

\* the except clause of the restart loop
RestartCaught(e) == e = "CalledProcessError"

\* one iteration of the loop over services, or its end
RestartService ==
  /\ pc = "RestartLoop"
  /\ IF i > Len(services)
       THEN /\ pc' = "Logs"
            /\ target' = 1
            /\ services' = <<>>
            /\ i' = 0
            /\ UNCHANGED <<out, calls, exc, lines>>
       ELSE LET svc == services[i]
                r == env.svc.restart[svc]
                post == env.svc.post[svc]
                begin == info("restarting", svc, 0, <<>>)
            IN IF r = "ok"
                 THEN /\ calls' = calls \o <<Call("restart", svc),
                                             Call("is-active", svc)>>
                      /\ IF post.raise = "none"
                           THEN /\ out' = out \o <<begin,
                                      info("status", svc, 0, Strip(post.stdout))>>
                                /\ i' = i + 1
                                /\ UNCHANGED <<pc, exc, services, lines, target>>
                           ELSE IF RestartCaught(post.raise)
                             THEN /\ out' = out \o <<begin,
                                        error("restart-failed", svc, 0, <<>>)>>
                                  /\ i' = i + 1
                                  /\ UNCHANGED <<pc, exc, services, lines, target>>
                             ELSE /\ out' = Append(out, begin)
                                  /\ Raise(post.raise)
                 ELSE /\ calls' = Append(calls, Call("restart", svc))
                      /\ IF RestartCaught(r)
                           THEN /\ out' = out \o <<begin,
                                      error("restart-failed", svc, 0, <<>>)>>
                                /\ i' = i + 1
                                /\ UNCHANGED <<pc, exc, services, lines, target>>
                           ELSE /\ out' = Append(out, begin)
                                /\ Raise(r)
  /\ UNCHANGED <<env, stages, exitCode>>

(* ----------------------------------------------------------- check_logs *)

\* return from check_logs to the next call of main()
LogsReturn ==
  /\ lines' = <<>>
  /\ IF target < Len(LogTargets)
       THEN /\ target' = target + 1
            /\ pc' = "Logs"
       ELSE /\ target' = 0
            /\ pc' = "Websites"

\* variant: >= instead of > in the size guard
TooLarge_AtCap(size) == size >= SizeCap

\* p.stat().st_size > LOG_SIZE_THRESHOLD_MB * 1024 * 1024
TooLarge(size) == size > SizeCap

\* the guards, then open() and readlines()[-50:]
CheckLogsOpen ==
  /\ pc = "Logs"
  /\ stages' = Append(stages, LogStages[target])
  /\ LET path == LogTargets[target]
         f == env.files[path]
         scanning == info("scanning", path, 0, <<>>)
     IN IF ~f.exists
          THEN /\ out' = out \o <<scanning, warn("log-not-found", path, 0, <<>>)>>
               /\ calls' = Append(calls, Call("exists", path))
               /\ LogsReturn
               /\ UNCHANGED <<exc, services, i>>
          ELSE IF TooLarge(f.size)
            THEN /\ out' = out \o <<scanning,
                                    warn("log-skipped", path, LOG_SIZE_THRESHOLD_MB, <<>>)>>
                 /\ calls' = calls \o <<Call("exists", path), Call("stat", path)>>
                 /\ LogsReturn
                 /\ UNCHANGED <<exc, services, i>>
            ELSE /\ out' = Append(out, scanning)
                 /\ calls' = calls \o <<Call("exists", path), Call("stat", path),
                                        Call("open", path)>>
                 /\ IF f.open # "ok"
                      THEN Raise(f.open)
                      ELSE /\ lines' = LastN(f.lines, TAIL_LINES)
                           /\ pc' = "LogsScan"
                           /\ UNCHANGED <<exc, services, i, target>>
  /\ UNCHANGED <<env, exitCode>>

\* variant: the line is not lower-cased before the keyword search
Matches_CaseSensitive(line) == \E term \in Keywords : Contains(line, term)

\* any(term in line.lower() for term in ("error", "fail", "critical"))
Matches(line) == \E term \in Keywords : Contains(Lower(line), term)

\* the loop over the retained lines
RECURSIVE ScanLines(_, _)
ScanLines(ls, name) ==
  IF ls = <<>> THEN <<>>
  ELSE (IF Matches(Head(ls))
          THEN <<error("log-line", name, 0, Strip(Head(ls)))>>
          ELSE <<>>)
       \o ScanLines(Tail(ls), name)

CheckLogsScan ==
  /\ pc = "LogsScan"
  /\ out' = out \o ScanLines(lines, PathName(LogTargets[target]))
  /\ LogsReturn
  /\ UNCHANGED <<env, calls, stages, exc, exitCode, services, i>>

(* ------------------------------------------------------- check_websites *)

CheckWebsites ==
  /\ pc = "Websites"
  /\ stages' = Append(stages, "WebsiteProbe")
  /\ IF env.websites = <<>>
       THEN /\ out' = Append(out, warn("no-websites", "", 0, <<>>))
            /\ pc' = "Finish"
            /\ UNCHANGED i
       ELSE /\ out' = Append(out, info("checking-websites", "", 0, <<>>))
            /\ pc' = "WebLoop"
            /\ i' = 1
  /\ UNCHANGED <<env, calls, exc, exitCode, services, lines, target>>

\* one iteration of the loop over WEBSITES, or its end
WebsiteProbe ==
  /\ pc = "WebLoop"
  /\ IF i > Len(env.websites)
       THEN /\ pc' = "Finish"
            /\ i' = 0
            /\ UNCHANGED <<out, calls, exc, services, lines, target>>
       ELSE LET w == env.websites[i]
            IN IF "requests" \notin ModuleGlobals
                 THEN /\ Raise("NameError")
                      /\ UNCHANGED <<out, calls>>
                 ELSE /\ calls' = Append(calls, Call("requests.get", w.url))
                      /\ IF w.raise = "none"
                           THEN /\ out' = Append(out,
                                       IF w.status = 200
                                         THEN info("up", w.url, 200, <<>>)
                                         ELSE warn("returned", w.url, w.status, <<>>))
                                /\ i' = i + 1
                                /\ UNCHANGED <<pc, exc, services, lines, target>>
                           ELSE IF w.raise = "RequestException"
                             THEN /\ out' = Append(out,
                                         error("check-failed", w.url, 0, <<>>))
                                  /\ i' = i + 1
                                  /\ UNCHANGED <<pc, exc, services, lines, target>>
                             ELSE /\ Raise(w.raise)
                                  /\ UNCHANGED out
  /\ UNCHANGED <<env, stages, exitCode>>

(* ------------------------------------------------- end of main, handler *)

\* the two closing info() calls; the interpreter then exits with status 0
MainFinish ==
  /\ pc = "Finish"
  /\ out' = out \o <<info("complete", "", 0, <<>>), info("log-file", "", 0, <<>>)>>
  /\ pc' = "Done"
  /\ exitCode' = 0
  /\ UNCHANGED <<env, calls, stages, exc, services, lines, i, target>>

\* variant: the handler logs the error but leaves the exit status at 0
HandleException_ExitZero ==
  /\ pc = "Raised"
  /\ out' = Append(out, error("unhandled", exc, 0, <<>>))
  /\ exitCode' = 0
  /\ pc' = "Exit"
  /\ UNCHANGED <<env, calls, stages, exc, services, lines, i, target>>

\* except Exception as e: error(...); sys.exit(1)
HandleException ==
  /\ pc = "Raised"
  /\ out' = Append(out, error("unhandled", exc, 0, <<>>))
  /\ exitCode' = 1
  /\ pc' = "Exit"
  /\ UNCHANGED <<env, calls, stages, exc, services, lines, i, target>>

Next ==
  \/ MainStart
  \/ CheckSystemLoad
  \/ CheckCpu
  \/ CheckDiskSpace
  \/ DiskPartition
  \/ CheckMemory
  \/ RestartEnter
  \/ RestartQuery
  \/ RestartService
  \/ CheckLogsOpen
  \/ CheckLogsScan
  \/ CheckWebsites
  \/ WebsiteProbe
  \/ MainFinish
  \/ HandleException

(* ---------------------------------------------------------- environments *)

MaxHead == 1

MaxTail == 2

Services == {"apache2", "nginx", "mysql"}

LogPaths == {APACHE_LOG, NGINX_LOG, MYSQL_LOG}

Reply(raise, stdout) == [raise |-> raise, stdout |-> stdout]

OutActive == ACTIVE \o <<NL>>

OutInactive == <<"i","n">> \o ACTIVE \o <<NL>>

OutActivating == <<"a","c","t","i","v","a","t","i","n","g",NL>>

LineOk == <<"o","k",NL>>

LineErr == <<"E","r","r","o","r",NL>>

LineMulti == <<" ","F","A","I","L"," ","c","r","i","t","i","c","a","l",NL>>

LogLines == {LineOk, LineErr, LineMulti}

File(exists, size, open, ls) ==
  [exists |-> exists, size |-> size, open |-> open, lines |-> ls]

Part(mountpoint, raise, pct) ==
  [mountpoint |-> mountpoint, raise |-> raise, pct |-> pct]

Site(url, raise, status) == [url |-> url, raise |-> raise, status |-> status]

Svc(pre, restart, post) == [pre |-> pre, restart |-> restart, post |-> post]

Repeat(x, n) == [k \in 1..n |-> x]

SeqsUpTo(S, n) == UNION {[1..k -> S] : k \in 0..n}

\* a healthy machine with no website configured
BaseEnv ==
  [load |-> [os |-> "ok", psutil |-> "ok"],
   temps |-> [raise |-> "none", sensors |-> <<[name |-> "coretemp", n |-> 1]>>],
   parts |-> <<Part("/", "none", 500)>>,
   mem |-> 100 * MiB,
   svc |-> Svc([s \in {"apache2", "nginx"} |-> Reply("none", OutActive)],
               [s \in Services |-> "ok"],
               [s \in Services |-> Reply("none", OutActive)]),
   files |-> [p \in LogPaths |-> File(TRUE, 1, "ok", <<LineOk>>)],
   websites |-> <<>>]

Loads == {[os |-> "ok", psutil |-> "ok"],
          [os |-> "OSError", psutil |-> "ok"],
          [os |-> "AttributeError", psutil |-> "ok"],
          [os |-> "OSError", psutil |-> "OSError"]}

Temps == {[raise |-> "AttributeError", sensors |-> <<>>],
          [raise |-> "none", sensors |-> <<>>],
          [raise |-> "none", sensors |-> <<[name |-> "coretemp", n |-> 2]>>]}

\* used-percentages are in tenths of a percent
PartLists == {<<Part("/", "none", 500)>>,
              <<Part("/", "none", 900), Part("/data", "none", 901)>>,
              <<Part("/", "OSError", 0), Part("/data", "none", 950)>>}

Mems == {100 * MiB, 100 * MiB - 1}

SvcWorlds ==
  {BaseEnv.svc,
   Svc([s \in {"apache2", "nginx"} |->
          IF s = "apache2" THEN Reply("none", OutInactive)
                           ELSE Reply("none", OutActive)],
       [s \in Services |-> IF s = "nginx" THEN "CalledProcessError" ELSE "ok"],
       [s \in Services |-> Reply("none", OutInactive)]),
   Svc([s \in {"apache2", "nginx"} |-> Reply("none", OutInactive)],
       [s \in Services |-> "OSError"],
       [s \in Services |-> Reply("none", OutInactive)])}

FileWorlds ==
  {[p \in LogPaths |-> File(TRUE, 1, "ok", <<LineOk, LineErr>>)],
   [p \in LogPaths |->
      IF p = APACHE_LOG THEN File(FALSE, 0, "ok", <<>>)
      ELSE IF p = NGINX_LOG THEN File(TRUE, SizeCap + 1, "ok", <<LineErr>>)
      ELSE File(TRUE, SizeCap, "ok", <<LineMulti>>)],
   [p \in LogPaths |->
      IF p = MYSQL_LOG THEN File(TRUE, 1, "PermissionError", <<LineErr>>)
      ELSE File(TRUE, 1, "ok", <<LineOk>>)]}

SiteLists == {<<>>,
              <<Site("http://a", "none", 200)>>,
              <<Site("http://a", "RequestException", 0),
                Site("http://b", "none", 404)>>}

PipelineEnvs ==
  {[load |-> l, temps |-> t, parts |-> p, mem |-> m, svc |-> s,
    files |-> f, websites |-> w] :
     l \in Loads, t \in Temps, p \in PartLists, m \in Mems,
     s \in SvcWorlds, f \in FileWorlds, w \in SiteLists}

\* environments that make every step of the pipeline happen
CoverEnvs == {BaseEnv, [BaseEnv EXCEPT !.websites = <<Site("http://a", "none", 200)>>]}

PreReplies == {Reply("none", OutActive), Reply("none", OutInactive),
               Reply("none", OutActivating), Reply("OSError", <<>>)}

RestartOutcomes == {"ok", "CalledProcessError", "OSError"}

PostReplies == {Reply("none", OutActive), Reply("none", OutInactive),
                Reply("OSError", <<>>)}

RestartEnvs ==
  {[BaseEnv EXCEPT !.svc = Svc(pre, r, [s \in Services |-> post])] :
     pre \in [{"apache2", "nginx"} -> PreReplies],
     r \in [Services -> RestartOutcomes],
     post \in PostReplies}

\* files with enough lines for some to fall outside the retained tail
RichLines ==
  {h \o Repeat(f, k) \o t :
     h \in SeqsUpTo(LogLines, MaxHead), f \in {LineOk, LineErr},
     k \in {0, TAIL_LINES - 1, TAIL_LINES}, t \in SeqsUpTo(LogLines, MaxTail)}

GuardFiles == {File(FALSE, 0, "ok", <<>>),
               File(TRUE, SizeCap + 1, "ok", <<LineErr>>),
               File(TRUE, SizeCap, "ok", <<LineErr, LineOk>>),
               File(TRUE, SizeCap - 1, "ok", <<LineMulti>>),
               File(TRUE, 0, "PermissionError", <<LineErr>>)}

LogsEnvs ==
  {[BaseEnv EXCEPT !.files[APACHE_LOG] = File(TRUE, SizeCap, "ok", l)] :
     l \in RichLines}
  \cup {[BaseEnv EXCEPT !.files = fs] : fs \in [LogPaths -> GuardFiles]}

(* ------------------------------------------------------- specifications *)

InitWith(E) ==
  /\ env \in E
  /\ pc = "Start"
  /\ out = <<>>
  /\ calls = <<>>
  /\ stages = <<>>
  /\ exc = "none"
  /\ exitCode = -1
  /\ services = <<>>
  /\ lines = <<>>
  /\ i = 0
  /\ target = 0

Init == InitWith(PipelineEnvs)

Spec == Init /\ [][Next]_vars

InitRestart == InitWith(RestartEnvs \cup CoverEnvs)

SpecRestart == InitRestart /\ [][Next]_vars

InitLogs == InitWith(LogsEnvs \cup CoverEnvs)

SpecLogs == InitLogs /\ [][Next]_vars

TypeOK ==
  /\ pc \in {"Start", "Load", "CPU", "Disk", "DiskLoop", "Memory", "Restart",
             "RestartQuery", "RestartLoop", "Logs", "LogsScan", "Websites",
             "WebLoop", "Finish", "Done", "Raised", "Exit"}
  /\ exitCode \in {-1, 0, 1}
  /\ target \in 0..3

(* ------------------------------------------------------------ properties *)

InStages(s) == \E j \in 1..Len(stages) : stages[j] = s

\* the exception now unwinding, or handled at the top level, left stage s
RaisedIn(s) == exc # "none" /\ stages # <<>> /\ stages[Len(stages)] = s

Terminated == pc \in {"Done", "Exit"}

Min(S) == CHOOSE x \in S : \A y \in S : x <= y

CountOut(level, kind, subj) ==
  Cardinality({j \in 1..Len(out) :
                 out[j].level = level /\ out[j].kind = kind /\ out[j].subj = subj})

CountLevel(level) == Cardinality({j \in 1..Len(out) : out[j].level = level})

CountCalls(fn, arg) ==
  Cardinality({j \in 1..Len(calls) : calls[j] = Call(fn, arg)})

\* C1: in every finished run the nine stages were each entered once, in
\* order, whatever the earlier stages met, and the run reached Done.
C1_AllStagesRun == Terminated => (stages = AllStages /\ pc = "Done")

\* C2: the exit status is 0 when the pipeline completes, whatever was
\* reported, and non-zero exactly when an exception escaped a stage; the
\* top-level handler then emits exactly one error-level result, its last.
C2_ExitStatus ==
  /\ Terminated <=> exitCode # -1
  /\ pc = "Done" => (exitCode = 0 /\ exc = "none" /\ stages = AllStages
                     /\ \A j \in 1..Len(out) : out[j].kind # "unhandled")
  /\ exc # "none" /\ Terminated =>
       /\ exitCode = 1
       /\ Cardinality({j \in 1..Len(out) : out[j].kind = "unhandled"}) = 1
       /\ out[Len(out)] = error("unhandled", exc, 0, <<>>)
  /\ exitCode > 0 => exc # "none"

C2_Witness ==
  /\ pc = "Done"
  /\ exitCode = 0
  /\ CountLevel("error") >= 2
  /\ CountLevel("warning") >= 3

\* the status query printed exactly the line "active"
ReportsActive(r) == r.raise = "none" /\ r.stdout = ACTIVE \o <<NL>>

ExpectedRestartSet ==
  {s \in {"apache2", "nginx"} : ReportsActive(env.svc.pre[s])} \cup {"mysql"}

InServices(s) == \E j \in 1..Len(services) : services[j] = s

\* C3: the restart list holds apache2 / nginx exactly when its status query
\* reported "active", always holds mysql, and no restart command is issued
\* for a service outside it.
C3_RestartSet ==
  /\ pc = "RestartLoop" =>
       /\ \A s \in Services : InServices(s) <=> s \in ExpectedRestartSet
       /\ Len(services) = Cardinality(ExpectedRestartSet)
  /\ \A j \in 1..Len(calls) :
       calls[j].fn = "restart" => calls[j].arg \in ExpectedRestartSet

C3_Witness ==
  /\ pc = "RestartLoop"
  /\ services = <<"nginx", "mysql">>
  /\ env.svc.pre["apache2"].stdout = OutActivating
  /\ CountCalls("restart", "nginx") = 1
  /\ CountCalls("restart", "apache2") = 0

RestartLeft ==
  InStages("ServiceRestart") /\ pc \notin {"RestartQuery", "RestartLoop"}

\* C4: restart_services never raises; each service of the restart set gets
\* exactly one restart command, and a failed one yields an error naming
\* the service and no post-restart status.
C4_RestartFailuresFolded ==
  RestartLeft =>
    /\ ~RaisedIn("ServiceRestart")
    /\ \A s \in ExpectedRestartSet :
         /\ CountCalls("restart", s) = 1
         /\ env.svc.restart[s] # "ok" =>
              /\ CountOut("error", "restart-failed", s) = 1
              /\ CountOut("info", "status", s) = 0

WebLeft == InStages("WebsiteProbe") /\ pc \notin {"WebLoop"}

ProbeKinds == {"up", "returned", "check-failed"}

ExpectedProbe(w) ==
  IF w.raise # "none" THEN error("check-failed", w.url, 0, <<>>)
  ELSE IF w.status = 200 THEN info("up", w.url, 200, <<>>)
  ELSE warn("returned", w.url, w.status, <<>>)

ProbeIdx == {j \in 1..Len(out) : out[j].kind \in ProbeKinds}

GetIdx == {j \in 1..Len(calls) : calls[j].fn = "requests.get"}

\* C5: for a non-empty URL list check_websites issues one request per URL
\* and emits one leveled result per URL, both in list order, and does not
\* raise out of the pipeline.
C5_OneResultPerUrl ==
  WebLeft /\ env.websites # <<>> =>
    /\ ~RaisedIn("WebsiteProbe")
    /\ Cardinality(GetIdx) = Len(env.websites)
    /\ Cardinality(ProbeIdx) = Len(env.websites)
    /\ \A n \in 1..Len(env.websites) :
         \E j \in ProbeIdx :
           /\ Cardinality({m \in ProbeIdx : m <= j}) = n
           /\ out[j] = ExpectedProbe(env.websites[n])

\* the k-th check_logs call has returned or raised
LogDone(k) == InStages(LogStages[k]) /\ ~(pc = "LogsScan" /\ target = k)

SegmentMarkers == {"scanning", "checking-websites", "no-websites", "unhandled"}

ScanStart(k) ==
  CHOOSE j \in 1..Len(out) :
    out[j].kind = "scanning" /\ out[j].subj = LogTargets[k]

ScanEnd(k) ==
  LET later == {j \in (ScanStart(k) + 1)..Len(out) : out[j].kind \in SegmentMarkers}
  IN IF later = {} THEN Len(out) ELSE Min(later) - 1

\* what the k-th check_logs call emitted after its opening info line
LogResults(k) == SubSeq(out, ScanStart(k) + 1, ScanEnd(k))

LogFile(k) == env.files[LogTargets[k]]

Skipped(f) == ~f.exists \/ f.size >= SizeCap + 1

Opened(k) == CountCalls("open", LogTargets[k]) > 0

\* C6: a missing file or one larger than the cap is never opened and yields
\* exactly one warning and no error; a file of exactly the cap is opened, a
\* file of cap + 1 bytes is not.
C6_SizeGuard ==
  \A k \in 1..Len(LogTargets) :
    /\ Skipped(LogFile(k)) => ~Opened(k)
    /\ LogDone(k) /\ Skipped(LogFile(k)) =>
         /\ Len(LogResults(k)) = 1
         /\ LogResults(k)[1].level = "warning"
         /\ LogResults(k)[1].subj = LogTargets[k]
    /\ LogDone(k) /\ LogFile(k).exists /\ LogFile(k).size = SizeCap => Opened(k)
    /\ LogDone(k) /\ LogFile(k).exists /\ LogFile(k).size = SizeCap + 1 =>
         /\ ~Opened(k)
         /\ LogResults(k)[1].kind = "log-skipped"

C6_Witness ==
  /\ LogDone(3)
  /\ ~LogFile(1).exists
  /\ LogResults(1) = <<warn("log-not-found", APACHE_LOG, 0, <<>>)>>
  /\ LogFile(2).size = SizeCap + 1
  /\ LogResults(2) = <<warn("log-skipped", NGINX_LOG, LOG_SIZE_THRESHOLD_MB, <<>>)>>
  /\ LogFile(3).size = SizeCap
  /\ Opened(3)

\* the sample lines that hold a keyword in some letter case
KeywordLines == {LineErr, LineMulti}

TrimmedLine(l) ==
  IF l = LineErr THEN <<"E","r","r","o","r">>
  ELSE IF l = LineMulti
    THEN <<"F","A","I","L"," ","c","r","i","t","i","c","a","l">>
  ELSE <<"o","k">>

\* the last 50 lines of the file, by position
TailOf(f) ==
  LET n == Len(f.lines)
      m == IF n < TAIL_LINES THEN n ELSE TAIL_LINES
  IN [j \in 1..m |-> f.lines[n - m + j]]

HoldsKeyword(l) == l \in KeywordLines

LoadLeft == InStages("Load")

\* C8: check_system_load falls back to the second source when the first
\* fails, and when both fail it reports an error and returns.
C8_LoadFallback ==
  LoadLeft =>
    /\ env.load.os # "ok" => CountCalls("psutil.getloadavg", "") = 1
    /\ env.load.os # "ok" /\ env.load.psutil # "ok" =>
         /\ ~RaisedIn("Load")
         /\ \E j \in 1..Len(out) : out[j].level = "error" /\ out[j].kind # "unhandled"

DiskLeft == InStages("Disk") /\ pc # "DiskLoop"

\* C9: every enumerated volume above the threshold gets exactly one warning
\* naming its mountpoint, every other volume none, whatever happens while
\* the other volumes are read.
C9_DiskWarnings ==
  DiskLeft =>
    \A k \in 1..Len(env.parts) :
      LET part == env.parts[k]
      IN part.raise = "none" =>
           CountOut("warning", "high-disk", part.mountpoint)
             = (IF part.pct >= DISK_WARNING_THRESHOLD * 10 + 1 THEN 1 ELSE 0)

CpuLeft == InStages("CPU")

SensorsAbsent ==
  \/ env.temps.raise = "AttributeError"
  \/ env.temps.raise = "none" /\ env.temps.sensors = <<>>

\* C10: when no temperature sensor data exists at all, check_cpu emits
\* exactly one "not available" warning and no error, and the run goes on.
C10_TempAbsent ==
  CpuLeft /\ SensorsAbsent =>
    /\ ~RaisedIn("CPU")
    /\ CountOut("warning", "temp-unavailable", "") = 1
    /\ pc = "Disk" => CountLevel("error") = 0

====
